---- MODULE Spec2Model ----
(***************************************************************************)
(* Model of the Epd2in13 (LilyGo 2.13") e-paper panel driver,              *)
(* src/src/epd2in13_lillygo/mod.rs.                                        *)
(*                                                                         *)
(* Every driver operation is a straight-line program of transport steps    *)
(* (assert, reset pulse, busy-wait, command byte, data transaction).  A    *)
(* caller action installs the program of the operation it invokes; the     *)
(* transport actions execute it one step at a time, appending to `trace`   *)
(* what reaches the pins and the bus.  A bus transaction may report a      *)
(* transport fault; the busy line is driven by the controller.             *)
(***************************************************************************)
EXTENDS Integers, Sequences, FiniteSets, TLC

(***************************************************************************)
(* Bounds of the model (inputs the caller may pass).                       *)
(***************************************************************************)
\* frame buffers are filled with one byte value out of 0..MaxFill
MaxFill == 1
\* frame buffer lengths range over buffer_len - LenSlack .. buffer_len + LenSlack
LenSlack == 1
\* rectangles passed to update_partial_frame are up to 8*MaxCoord wide and
\* MaxCoord high, their buffers up to MaxCoord bytes long
MaxCoord == 1

(***************************************************************************)
(* Program constants.                                                      *)
(***************************************************************************)
WIDTH == 122
HEIGHT == 250
DEFAULT_BACKGROUND_COLOR == "White"
IS_BUSY_LOW == FALSE

Color == {"Black", "White"}
RefreshLut == {"Full", "Quick"}
DeepSleepMode == {"Normal", "Mode1", "Mode2"}
\* Option<RefreshLut>
OptRefreshLut == RefreshLut \cup {"None"}

\* crate::buffer_len: bytes of a one-bit-per-pixel frame
buffer_len(w, h) == (w * h + 7) \div 8

(***************************************************************************)
(* Byte strings.  A byte string is a sequence of runs, a run being `n`     *)
(* copies of byte `b`; a literal payload is a sequence of runs of one.     *)
(***************************************************************************)
Lit(s) == [i \in DOMAIN s |-> [n |-> 1, b |-> s[i]]]

RECURSIVE ByteLen(_)
ByteLen(p) == IF p = <<>> THEN 0 ELSE p[1].n + ByteLen(Tail(p))

\* a caller's frame buffer: len bytes, each equal to fill
FrameBuffer(len, fill) == IF len = 0 THEN <<>> ELSE <<[n |-> len, b |-> fill]>>

\* frame buffers a caller passes: of the panel's length with any fill, and of
\* the lengths around it
BufferLens == (buffer_len(WIDTH, HEIGHT) - LenSlack) .. (buffer_len(WIDTH, HEIGHT) + LenSlack)
Buffers == {FrameBuffer(buffer_len(WIDTH, HEIGHT), f) : f \in 0..MaxFill}
               \cup {FrameBuffer(l, 0) : l \in BufferLens \cup {0}}

\* buffers and rectangles a caller passes to update_partial_frame
PartialBuffers == {FrameBuffer(l, 0) : l \in 0..MaxCoord}
RectWidths == {8 * i : i \in 0..MaxCoord}
RectHeights == 0..MaxCoord

\* constants::LUT_FULL_UPDATE and constants::LUT_PARTIAL_UPDATE
LUT_FULL_UPDATE == Lit(<<128, 96, 64>>)
LUT_PARTIAL_UPDATE == Lit(<<0, 0, 64>>)

\* payload byte of Command::DeepSleepMode selecting a sleep depth
DeepSleepModeByte(m) == CASE m = "Normal" -> 0 [] m = "Mode1" -> 1 [] m = "Mode2" -> 3

(***************************************************************************)
(* Steps of a program.  q marks a step whose failure is propagated to the  *)
(* caller by the ? operator.                                               *)
(***************************************************************************)
MkStep(k, op, data) == [k |-> k, op |-> op, data |-> data, q |-> FALSE]
Event(s) == [k |-> s.k, op |-> s.op, data |-> s.data]

\* assert!(cond)
AssertStep(cond) == <<MkStep("assert", IF cond THEN "holds" ELSE "fails", <<>>)>>

\* DisplayInterface::reset(delay, initial_delay, duration)
interface_reset(initial_delay, duration) ==
    <<MkStep("reset", "-", Lit(<<initial_delay, duration>>))>>

\* DisplayInterface::wait_until_idle(delay, is_busy_low)
interface_wait_until_idle(is_busy_low) ==
    <<MkStep("wait", IF is_busy_low THEN "busy-low" ELSE "busy-high", <<>>)>>

\* DisplayInterface::cmd(spi, command)
interface_cmd(command) == <<MkStep("cmd", command, <<>>)>>

\* DisplayInterface::cmd_with_data(spi, command, data)
interface_cmd_with_data(command, data) ==
    <<[MkStep("cmd", command, <<>>) EXCEPT !.q = TRUE], MkStep("data", command, data)>>

\* the ? operator (and a call in tail position): a failure of any step of p
\* ends the calling operation with that failure
Try(p) == [i \in DOMAIN p |-> [p[i] EXCEPT !.q = TRUE]]

(***************************************************************************)
(* The driver's private helpers.  Arguments the code ignores are ignored.  *)
(***************************************************************************)
command(cmd) == interface_cmd(cmd)

cmd_with_data(cmd, data) == interface_cmd_with_data(cmd, data)

\* a busy-wait that returns at once, without sampling the busy line
wait_until_idle_skip == <<>>

wait_until_idle == interface_wait_until_idle(IS_BUSY_LOW)

set_border_waveform(borderwaveform) ==
    Try(cmd_with_data("BorderWaveformControl", Lit(<<5>>)))

set_display_update_control_2(value) ==
    Try(cmd_with_data("DisplayUpdateControl2", Lit(<<247>>)))

set_sleep_mode(mode) ==
    Try(cmd_with_data("DeepSleepMode", Lit(<<1>>)))

set_driver_output(output) ==
    Try(cmd_with_data("DriverOutputControl", Lit(<<249, 0, 0>>)))

set_data_entry_mode(counter_incr_mode, counter_direction) ==
    Try(cmd_with_data("DataEntryModeSetting", Lit(<<3>>)))

set_ram_area(start_x, start_y, end_x, end_y) ==
       Try(cmd_with_data("SetRamXAddressStartEndPosition", Lit(<<0, 15>>)))
    \o Try(cmd_with_data("SetRamYAddressStartEndPosition", Lit(<<0, 0, 249, 0>>)))

set_ram_address_counters(x, y) ==
       Try(wait_until_idle)
    \o Try(cmd_with_data("SetRamXAddressCounter", Lit(<<0>>)))
    \o Try(cmd_with_data("SetRamYAddressCounter", Lit(<<0>>)))

\* DisplayUpdateControl2::new().enable_analog()... : the set of staged phases
DUC2_Sleep == {"enable_analog", "enable_clock", "disable_analog", "disable_clock"}
DUC2_Display == {"enable_clock", "enable_analog", "display", "disable_analog", "disable_clock"}

\* a call whose result is discarded: a failure of p is not propagated
Discard(p) == [i \in DOMAIN p |-> [p[i] EXCEPT !.q = FALSE]]

(***************************************************************************)
(* InternalWiAdditions::init                                               *)
(***************************************************************************)
\* init that drops the result of set_border_waveform instead of propagating it
init_unchecked ==
       interface_reset(10000, 10000)
    \o Try(wait_until_idle)
    \o Try(command("SwReset"))
    \o Try(wait_until_idle)
    \o Try(set_driver_output([scan_is_linear |-> FALSE, scan_g0_is_first |-> FALSE,
                              scan_dir_incr |-> FALSE, width |-> HEIGHT - 1]))
    \o Try(set_data_entry_mode("XDecrYIncr", "XDir"))
    \o Try(set_ram_area(0, 0, WIDTH - 1, HEIGHT - 1))
    \o Discard(set_border_waveform([vbd |-> "Gs", fix_level |-> "Vss", gs_trans |-> "Lut3"]))
    \o Try(cmd_with_data("DisplayUpdateControl1", Lit(<<0, 128>>)))
    \o Try(cmd_with_data("TemperatureSensorControlRead", Lit(<<128>>)))
    \o Try(set_ram_address_counters(0, 0))
    \o Try(wait_until_idle)

\* init that resets the RAM address counters before it sets the RAM window
init_counters_first ==
       interface_reset(10000, 10000)
    \o Try(wait_until_idle)
    \o Try(command("SwReset"))
    \o Try(wait_until_idle)
    \o Try(set_driver_output([scan_is_linear |-> FALSE, scan_g0_is_first |-> FALSE,
                              scan_dir_incr |-> FALSE, width |-> HEIGHT - 1]))
    \o Try(set_data_entry_mode("XDecrYIncr", "XDir"))
    \o Try(set_ram_address_counters(0, 0))
    \o Try(set_ram_area(0, 0, WIDTH - 1, HEIGHT - 1))
    \o Try(set_border_waveform([vbd |-> "Gs", fix_level |-> "Vss", gs_trans |-> "Lut3"]))
    \o Try(cmd_with_data("DisplayUpdateControl1", Lit(<<0, 128>>)))
    \o Try(cmd_with_data("TemperatureSensorControlRead", Lit(<<128>>)))
    \o Try(wait_until_idle)

init ==
       interface_reset(10000, 10000)
    \o Try(wait_until_idle)
    \o Try(command("SwReset"))
    \o Try(wait_until_idle)
    \o Try(set_driver_output([scan_is_linear |-> FALSE, scan_g0_is_first |-> FALSE,
                              scan_dir_incr |-> FALSE, width |-> HEIGHT - 1]))
    \o Try(set_data_entry_mode("XDecrYIncr", "XDir"))
    \o Try(set_ram_area(0, 0, WIDTH - 1, HEIGHT - 1))
    \o Try(set_border_waveform([vbd |-> "Gs", fix_level |-> "Vss", gs_trans |-> "Lut3"]))
    \o Try(cmd_with_data("DisplayUpdateControl1", Lit(<<0, 128>>)))
    \o Try(cmd_with_data("TemperatureSensorControlRead", Lit(<<128>>)))
    \o Try(set_ram_address_counters(0, 0))
    \o Try(wait_until_idle)

(***************************************************************************)
(* WaveshareDisplay operations                                             *)
(***************************************************************************)
new == Try(init)

\* an abbreviated wake path: init without the reset pulse
wake_up_no_reset == Tail(init)

wake_up == init

\* sleep that waits for the controller after master-activation
sleep_waits_after(sleep_mode_) ==
       Try(wait_until_idle)
    \o Try(set_display_update_control_2(DUC2_Sleep))
    \o Try(command("MasterActivation"))
    \o Try(wait_until_idle)
    \o Try(set_sleep_mode(sleep_mode_))

\* sleep that enters deep sleep before the teardown activation
sleep_swapped(sleep_mode_) ==
       Try(wait_until_idle)
    \o Try(set_sleep_mode(sleep_mode_))
    \o Try(set_display_update_control_2(DUC2_Sleep))
    \o Try(command("MasterActivation"))

sleep(sleep_mode_) ==
       Try(wait_until_idle)
    \o Try(set_display_update_control_2(DUC2_Sleep))
    \o Try(command("MasterActivation"))
    \o Try(set_sleep_mode(sleep_mode_))

\* update_frame without the re-assertion of the RAM window and counters
update_frame_no_reassert(buffer) ==
       AssertStep(ByteLen(buffer) = buffer_len(WIDTH, HEIGHT))
    \o Try(init)
    \o Try(cmd_with_data("WriteRam", buffer))

\* update_frame that checks the buffer length only after init
update_frame_late_assert(buffer) ==
       Try(init)
    \o AssertStep(ByteLen(buffer) = buffer_len(WIDTH, HEIGHT))
    \o Try(set_ram_area(0, 0, WIDTH - 1, HEIGHT - 1))
    \o Try(set_ram_address_counters(0, 0))
    \o Try(cmd_with_data("WriteRam", buffer))

\* update_frame with a fast path that skips init
update_frame_no_init(buffer) ==
       AssertStep(ByteLen(buffer) = buffer_len(WIDTH, HEIGHT))
    \o Try(set_ram_area(0, 0, WIDTH - 1, HEIGHT - 1))
    \o Try(set_ram_address_counters(0, 0))
    \o Try(cmd_with_data("WriteRam", buffer))

update_frame(buffer) ==
       AssertStep(ByteLen(buffer) = buffer_len(WIDTH, HEIGHT))
    \o Try(init)
    \o Try(set_ram_area(0, 0, WIDTH - 1, HEIGHT - 1))
    \o Try(set_ram_address_counters(0, 0))
    \o Try(cmd_with_data("WriteRam", buffer))

\* update_partial_frame without the unconditional assert!(false)
update_partial_frame_unguarded(buffer, x, y, width, height) ==
    AssertStep((width * height) \div 8 = ByteLen(buffer))

\* width * height is a u32 product; it stays far below 2^32 for the
\* rectangles of RectWidths x RectHeights, and both outcomes of the first
\* assertion lead to a panic
update_partial_frame(buffer, x, y, width, height) ==
       AssertStep((width * height) \div 8 = ByteLen(buffer))
    \o AssertStep(FALSE)

display_frame ==
       Try(set_display_update_control_2(DUC2_Display))
    \o Try(command("MasterActivation"))
    \o Try(wait_until_idle)

\* update_and_display_frame that drops the result of update_frame
update_and_display_frame_unchecked(buffer) ==
       Discard(update_frame(buffer))
    \o Try(display_frame)

update_and_display_frame(buffer) ==
       Try(update_frame(buffer))
    \o Try(display_frame)

clear_frame == AssertStep(FALSE)

set_lut(refresh_rate) ==
    LET buffer == CASE refresh_rate \in {"Full", "None"} -> LUT_FULL_UPDATE
                    [] refresh_rate = "Quick" -> LUT_PARTIAL_UPDATE
    IN  Try(cmd_with_data("WriteLutRegister", buffer))

set_partial_base_buffer(buffer) == AssertStep(FALSE)

\* set_refresh that re-initializes whether or not the profile changes
set_refresh_always(current, refresh_) == Try(init)

\* set_refresh that refreshes the panel after re-initializing it
set_refresh_activates(current, refresh_) ==
    IF current # refresh_ THEN Try(init) \o Try(display_frame) ELSE <<>>

\* the bus program of set_refresh; the store to self.refresh is in the action
set_refresh(current, refresh_) ==
    IF current # refresh_ THEN Try(init) ELSE <<>>

background_color_get(color) == color

width == WIDTH

height == HEIGHT

(***************************************************************************)
(* State                                                                   *)
(***************************************************************************)
VARIABLES
    phase,            \* "none": no driver yet; "live": constructed; "panicked"
    sleep_mode,       \* Epd2in13.sleep_mode
    background_color, \* Epd2in13.background_color
    refresh,          \* Epd2in13.refresh
    op,               \* the operation invoked last
    arg,              \* its enumerated argument, "-" when it has none
    buf,              \* its buffer argument, empty when it has none
    result,           \* "none", "running", "Ok", "Err" or "panic"
    todo,             \* the steps the running operation has still to execute
    trace,            \* what that operation has put on the pins and the bus
    busy,             \* the controller is mid-operation (busy line asserted)
    faulted,          \* a bus transaction of that operation reported a fault
    asleep,           \* sleep returned Ok and wake_up was not called since
    newTrace,         \* the trace of the construction that returned the driver
    was,              \* Epd2in13.refresh when that operation was invoked
    updated           \* the update_frame that returned Ok just before this operation

vars == <<phase, sleep_mode, background_color, refresh, op, arg, buf, result, todo,
          trace, busy, faulted, asleep, newTrace, was, updated>>

config == <<sleep_mode, background_color, refresh>>

NoUpdate == [done |-> FALSE, buffer |-> <<>>, trace |-> <<>>]

Init ==
    /\ phase = "none"
    /\ sleep_mode = "Mode1"
    /\ background_color = DEFAULT_BACKGROUND_COLOR
    /\ refresh = "Full"
    /\ op = "none"
    /\ arg = "-"
    /\ buf = <<>>
    /\ result = "none"
    /\ todo = <<>>
    /\ trace = <<>>
    /\ busy = FALSE
    /\ faulted = FALSE
    /\ asleep = FALSE
    /\ newTrace = <<>>
    /\ was = "Full"
    /\ updated = NoUpdate

Idle == phase = "live" /\ result # "running"

\* the argument of a call: an enumerated value, a buffer, or none
NoArg == [val |-> "-", buf |-> <<>>]
Val(v) == [val |-> v, buf |-> <<>>]
Buf(b) == [val |-> "-", buf |-> b]

\* the caller invokes operation `name` with argument a; prog is its program
Call(name, a, prog) ==
    /\ op' = name
    /\ arg' = a.val
    /\ buf' = a.buf
    /\ todo' = prog
    /\ trace' = <<>>
    /\ faulted' = FALSE
    /\ result' = IF prog = <<>> THEN "Ok" ELSE "running"
    /\ was' = refresh
    /\ updated' = IF op = "update_frame" /\ result = "Ok"
                      THEN [done |-> TRUE, buffer |-> buf, trace |-> trace]
                      ELSE NoUpdate
    /\ asleep' = IF name = "wake_up" THEN FALSE ELSE asleep
    /\ UNCHANGED <<phase, busy, newTrace>>

\* the running operation goes on with the steps `rest`, or returns Ok
Continue(rest) ==
    /\ todo' = rest
    /\ result' = IF rest = <<>> THEN "Ok" ELSE "running"
    /\ phase' = IF rest = <<>> /\ op = "new" THEN "live" ELSE phase
    /\ asleep' = IF rest = <<>> /\ op = "sleep" THEN TRUE ELSE asleep
    /\ newTrace' = IF rest = <<>> /\ op = "new" THEN trace' ELSE newTrace
    /\ UNCHANGED <<config, op, arg, buf, was, updated>>

(***************************************************************************)
(* Caller actions                                                          *)
(***************************************************************************)
New ==
    /\ phase = "none" /\ result # "running"
    /\ sleep_mode' = "Mode1"
    /\ background_color' = DEFAULT_BACKGROUND_COLOR
    /\ refresh' = "Full"
    /\ Call("new", NoArg, new)

\* wake_up that puts the refresh profile back to the one of a new driver
WakeUp_resets ==
    /\ Idle
    /\ Call("wake_up", NoArg, wake_up)
    /\ refresh' = "Full"
    /\ UNCHANGED <<sleep_mode, background_color>>

WakeUp == Idle /\ Call("wake_up", NoArg, wake_up) /\ UNCHANGED config

Sleep == Idle /\ Call("sleep", NoArg, sleep(sleep_mode)) /\ UNCHANGED config

UpdateFrame ==
    \E buffer \in Buffers :
        Idle /\ Call("update_frame", Buf(buffer), update_frame(buffer)) /\ UNCHANGED config

UpdatePartialFrame ==
    \E buffer \in PartialBuffers, w \in RectWidths, h \in RectHeights :
        /\ Idle
        /\ Call("update_partial_frame", Buf(buffer), update_partial_frame(buffer, 0, 0, w, h))
        /\ UNCHANGED config

DisplayFrame == Idle /\ Call("display_frame", NoArg, display_frame) /\ UNCHANGED config

UpdateAndDisplayFrame ==
    \E buffer \in Buffers :
        /\ Idle
        /\ Call("update_and_display_frame", Buf(buffer), update_and_display_frame(buffer))
        /\ UNCHANGED config

ClearFrame == Idle /\ Call("clear_frame", NoArg, clear_frame) /\ UNCHANGED config

\* set_background_color that also sends the color to the controller
SetBackgroundColor_transmits ==
    \E color \in Color :
        /\ Idle
        /\ background_color' = color
        /\ Call("set_background_color", Val(color), set_border_waveform(color))
        /\ UNCHANGED <<sleep_mode, refresh>>

SetBackgroundColor ==
    \E color \in Color :
        /\ Idle
        /\ background_color' = color
        /\ Call("set_background_color", Val(color), <<>>)
        /\ UNCHANGED <<sleep_mode, refresh>>

SetLut ==
    \E refresh_rate \in OptRefreshLut :
        Idle /\ Call("set_lut", Val(refresh_rate), set_lut(refresh_rate)) /\ UNCHANGED config

SetPartialBaseBuffer ==
    \E buffer \in Buffers :
        /\ Idle
        /\ Call("set_partial_base_buffer", Buf(buffer), set_partial_base_buffer(buffer))
        /\ UNCHANGED config

SetDeepSleepMode ==
    \E mode \in DeepSleepMode :
        /\ Idle
        /\ sleep_mode' = mode
        /\ Call("set_deep_sleep_mode", Val(mode), <<>>)
        /\ UNCHANGED <<background_color, refresh>>

SetRefresh ==
    \E r \in RefreshLut :
        /\ Idle
        /\ refresh' = r
        /\ Call("set_refresh", Val(r), set_refresh(refresh, r))
        /\ UNCHANGED <<sleep_mode, background_color>>

(***************************************************************************)
(* Transport actions: the running operation executes its next step         *)
(***************************************************************************)
Running == result = "running" /\ todo # <<>>

\* assert!(cond) with cond true
AssertHolds ==
    /\ Running /\ todo[1].k = "assert" /\ todo[1].op = "holds"
    /\ Continue(Tail(todo))
    /\ UNCHANGED <<trace, busy, faulted>>

\* assert!(cond) with cond false: the operation panics
AssertFails ==
    /\ Running /\ todo[1].k = "assert" /\ todo[1].op = "fails"
    /\ phase' = "panicked"
    /\ result' = "panic"
    /\ todo' = <<>>
    /\ UNCHANGED <<config, op, arg, buf, trace, busy, faulted, asleep, newTrace, was, updated>>

\* the reset line is pulsed; the controller restarts
ResetPulse ==
    /\ Running /\ todo[1].k = "reset"
    /\ trace' = Append(trace, Event(todo[1]))
    /\ busy' = TRUE
    /\ Continue(Tail(todo))
    /\ UNCHANGED faulted

\* the busy line reads idle: the busy-wait returns
WaitIdle ==
    /\ Running /\ todo[1].k = "wait"
    /\ ~busy
    /\ trace' = Append(trace, Event(todo[1]))
    /\ Continue(Tail(todo))
    /\ UNCHANGED <<busy, faulted>>

BusyInducing == {"SwReset", "MasterActivation"}

\* a command byte is transmitted
SendCommand ==
    /\ Running /\ todo[1].k = "cmd"
    /\ trace' = Append(trace, Event(todo[1]))
    /\ busy' = (busy \/ todo[1].op \in BusyInducing)
    /\ Continue(Tail(todo))
    /\ UNCHANGED faulted

\* a payload is transmitted
SendData ==
    /\ Running /\ todo[1].k = "data"
    /\ trace' = Append(trace, Event(todo[1]))
    /\ Continue(Tail(todo))
    /\ UNCHANGED <<busy, faulted>>

\* the bus reports a fault for the transaction; nothing is transmitted
Fault ==
    /\ Running /\ todo[1].k \in {"cmd", "data"}
    /\ faulted' = TRUE
    /\ IF todo[1].q
          THEN /\ todo' = <<>>
               /\ result' = "Err"
               /\ UNCHANGED <<phase, asleep, newTrace, config, op, arg, buf, was, updated>>
          ELSE Continue(Tail(todo))
    /\ UNCHANGED <<trace, busy>>

\* the controller finishes its operation and releases the busy line
ControllerDone ==
    /\ busy
    /\ busy' = FALSE
    /\ UNCHANGED <<phase, config, op, arg, buf, result, todo, trace, faulted, asleep,
                   newTrace, was, updated>>

Next ==
    \/ New
    \/ WakeUp
    \/ Sleep
    \/ UpdateFrame
    \/ UpdatePartialFrame
    \/ DisplayFrame
    \/ UpdateAndDisplayFrame
    \/ ClearFrame
    \/ SetBackgroundColor
    \/ SetLut
    \/ SetPartialBaseBuffer
    \/ SetDeepSleepMode
    \/ SetRefresh
    \/ AssertHolds
    \/ AssertFails
    \/ ResetPulse
    \/ WaitIdle
    \/ SendCommand
    \/ SendData
    \/ Fault
    \/ ControllerDone

Spec == Init /\ [][Next]_vars

(***************************************************************************)
(* Observations on traces                                                  *)
(***************************************************************************)
IsCommandOrReset(e) == e.k \in {"reset", "cmd"}
IsBusTraffic(e) == e.k \in {"cmd", "data"}

\* the reset pulses and command bytes of a trace, in order
CmdOrder(t) ==
    LET sel == SelectSeq(t, IsCommandOrReset)
    IN  [i \in DOMAIN sel |-> IF sel[i].k = "reset" THEN "reset" ELSE sel[i].op]

\* kind, opcode and payload length of every event of a trace
Shape(t) == [i \in DOMAIN t |-> <<t[i].k, t[i].op, ByteLen(t[i].data)>>]

IsPrefix(a, b) == Len(a) <= Len(b) /\ SubSeq(b, 1, Len(a)) = a

\* the payloads of the command cmd in a trace
PayloadsOf(t, cmd) ==
    {t[i].data : i \in {j \in DOMAIN t : t[j].k = "data" /\ t[j].op = cmd}}

\* this step puts a command or data byte on the bus
BusEmit ==
    /\ Len(trace') = Len(trace) + 1
    /\ IsBusTraffic(trace'[Len(trace')])

InitOrder ==
    <<"reset", "SwReset", "DriverOutputControl", "DataEntryModeSetting",
      "SetRamXAddressStartEndPosition", "SetRamYAddressStartEndPosition",
      "BorderWaveformControl", "DisplayUpdateControl1",
      "TemperatureSensorControlRead", "SetRamXAddressCounter",
      "SetRamYAddressCounter">>

(***************************************************************************)
(* C1                                                                      *)
(***************************************************************************)
\* update_frame returned Ok and the display_frame invoked right after it too
UpdateThenDisplay == updated.done /\ op = "display_frame" /\ result = "Ok"

\* C1 (as claimed): update_frame then display_frame emit reset, software
\* reset, driver output, data entry mode, RAM X and Y window, border waveform,
\* display update control 1, temperature sensor, RAM X and Y counter, write
\* RAM, display update control 2, master activation, and no other command
\* between these.
C1_Original ==
    UpdateThenDisplay =>
        CmdOrder(updated.trace \o trace) =
            InitOrder \o <<"WriteRam", "DisplayUpdateControl2", "MasterActivation">>

\* C1 (amended): the same order, except that between the RAM Y counter of
\* init and write RAM the RAM X and Y window and the RAM X and Y counter are
\* sent a second time; write RAM carries the caller's buffer.
C1_Amended ==
    UpdateThenDisplay =>
        /\ CmdOrder(updated.trace \o trace) =
               InitOrder
            \o <<"SetRamXAddressStartEndPosition", "SetRamYAddressStartEndPosition",
                 "SetRamXAddressCounter", "SetRamYAddressCounter">>
            \o <<"WriteRam", "DisplayUpdateControl2", "MasterActivation">>
        /\ PayloadsOf(updated.trace \o trace, "WriteRam") = {updated.buffer}
        /\ ByteLen(updated.buffer) = buffer_len(WIDTH, HEIGHT)

C1_Witness == UpdateThenDisplay /\ updated.buffer = FrameBuffer(buffer_len(WIDTH, HEIGHT), 1)

(***************************************************************************)
(* C2                                                                      *)
(***************************************************************************)
BadLength == ByteLen(buf) # buffer_len(WIDTH, HEIGHT)

\* C2: update_frame and update_and_display_frame with a buffer of any other
\* length than buffer_len(WIDTH, HEIGHT) put nothing on the pins or the bus
\* and do not return Ok: the length assertion is the first step and panics.
C2_RejectsBadLength ==
    (op \in {"update_frame", "update_and_display_frame"} /\ BadLength) =>
        /\ trace = <<>>
        /\ result \in {"running", "panic"}
        /\ result = "running" => (todo[1].k = "assert" /\ todo[1].op = "fails")

C2_Witness ==
    /\ op = "update_and_display_frame"
    /\ ByteLen(buf) = buffer_len(WIDTH, HEIGHT) - 1
    /\ result = "panic"

(***************************************************************************)
(* C3                                                                      *)
(***************************************************************************)
\* C3 (as claimed): set_refresh(Quick) on a driver whose profile is Full sends
\* LUT_PARTIAL_UPDATE as the payload of WriteLutRegister and leaves the stored
\* profile Quick.
C3_Claim ==
    (op = "set_refresh" /\ was = "Full" /\ arg = "Quick" /\ result = "Ok") =>
        /\ PayloadsOf(trace, "WriteLutRegister") = {LUT_PARTIAL_UPDATE}
        /\ refresh = "Quick"

(***************************************************************************)
(* C4                                                                      *)
(***************************************************************************)
\* C4: set_refresh(p) on a driver whose stored profile is already p returns Ok
\* at once, puts nothing on the pins or the bus and leaves the profile p.
C4_Idempotent ==
    (op = "set_refresh" /\ was = arg) =>
        /\ trace = <<>>
        /\ todo = <<>>
        /\ result = "Ok"
        /\ refresh = arg

C4_Witness == op = "set_refresh" /\ was = arg /\ arg = "Quick" /\ result = "Ok"

(***************************************************************************)
(* C5                                                                      *)
(***************************************************************************)
SleepShape ==
    << <<"wait", "busy-high", 0>>,
       <<"cmd", "DisplayUpdateControl2", 0>>, <<"data", "DisplayUpdateControl2", 1>>,
       <<"cmd", "MasterActivation", 0>>,
       <<"cmd", "DeepSleepMode", 0>>, <<"data", "DeepSleepMode", 1>> >>

\* C5: sleep emits busy-wait, display update control 2 with one payload byte,
\* master activation, deep sleep mode with one payload byte, and nothing else:
\* no reset pulse and no busy-wait after master activation.
C5_SleepSequence ==
    op = "sleep" =>
        /\ IsPrefix(Shape(trace), SleepShape)
        /\ result = "Ok" => Shape(trace) = SleepShape

C5_Witness == op = "sleep" /\ result = "Ok" /\ Len(trace) = 6

(***************************************************************************)
(* C6                                                                      *)
(***************************************************************************)
\* C6 (as claimed): the deep sleep mode payload sent by sleep encodes the
\* sleep depth stored by set_deep_sleep_mode.
C6_Claim ==
    (op = "sleep" /\ result = "Ok") =>
        PayloadsOf(trace, "DeepSleepMode") = {Lit(<<DeepSleepModeByte(sleep_mode)>>)}

(***************************************************************************)
(* C7                                                                      *)
(***************************************************************************)
\* C7 (as claimed): between a sleep that returned Ok and the next wake_up no
\* command or data byte appears on the bus, whatever the caller invokes.
C7_Original == [][asleep => ~BusEmit]_vars

\* the operations that transmit when invoked on a sleeping panel
Transmitting ==
    \/ op \in {"sleep", "update_frame", "display_frame", "update_and_display_frame",
               "set_lut"}
    \/ op = "set_refresh" /\ arg # was

\* C7 (amended): sleep returns Ok right after the deep sleep mode payload,
\* the last thing it sends; from then until wake_up the bus carries only
\* what a later sleep, update_frame, display_frame, update_and_display_frame,
\* set_lut or profile-changing set_refresh sends while it runs: the driver
\* keeps no sleeping state that would hold these back.
C7_Amended ==
    [][ /\ (~asleep /\ asleep') =>
               /\ op = "sleep" /\ result' = "Ok"
               /\ BusEmit
               /\ Event(todo[1]) = [k |-> "data", op |-> "DeepSleepMode", data |-> Lit(<<1>>)]
        /\ (asleep /\ BusEmit) => (result = "running" /\ Transmitting)
      ]_vars

C7_Witness == asleep /\ op = "display_frame" /\ result = "Ok" /\ Len(trace) = 4

(***************************************************************************)
(* C8                                                                      *)
(***************************************************************************)
\* C8: wake_up puts on the pins and the bus exactly what the construction of
\* the driver did (reset pulse, busy-waits, opcodes and payloads, in order),
\* whatever the stored profile, sleep depth and background color.
C8_WakeIsInit ==
    op = "wake_up" =>
        /\ IsPrefix(trace, newTrace)
        /\ result = "Ok" => trace = newTrace

C8_Witness ==
    /\ op = "wake_up" /\ result = "Ok" /\ Len(trace) > 0
    /\ refresh = "Quick" /\ sleep_mode = "Mode2" /\ background_color = "Black"

(***************************************************************************)
(* C9                                                                      *)
(***************************************************************************)
Unsupported == {"update_partial_frame", "clear_frame", "set_partial_base_buffer"}

C10_FaultPropagates ==
    [][ /\ faulted' => (result' = "Err" /\ todo' = <<>>)
        /\ (~faulted /\ faulted') => trace' = trace
        /\ (faulted /\ faulted') => trace' = trace
      ]_vars

C10_Witness ==
    /\ op = "update_and_display_frame" /\ faulted /\ result = "Err"
    /\ Len(trace) > Len(newTrace)

(***************************************************************************)
(* C11                                                                     *)
(***************************************************************************)
IsEmitted(st) == st.k # "assert"

\* what a program puts on the pins and the bus when every step succeeds
Events(prog) ==
    LET sel == SelectSeq(prog, IsEmitted)
    IN  [i \in DOMAIN sel |-> Event(sel[i])]

\* C11 (as claimed): the display update control 2 payload that sleep stages
\* before its master activation has no display step and differs from the
\* full-sequence payload that display_frame stages.
C11_Claim ==
    (op = "sleep" /\ result = "Ok") =>
        PayloadsOf(trace, "DisplayUpdateControl2")
            \cap PayloadsOf(Events(display_frame), "DisplayUpdateControl2") = {}

(***************************************************************************)
(* C12                                                                     *)
(***************************************************************************)
\* C12 (as claimed): no command byte is sent while the controller is busy
\* (from a reset pulse, a software reset or a master activation until the
\* busy line is released).
C12_Claim ==
    [][(BusEmit /\ trace'[Len(trace')].k = "cmd") => ~busy]_vars

(***************************************************************************)
(* C13                                                                     *)
(***************************************************************************)
\* the running operation executes its next step
Execute ==
    \/ AssertHolds
    \/ AssertFails
    \/ ResetPulse
    \/ WaitIdle
    \/ SendCommand
    \/ SendData

NextNoFault ==
    \/ New
    \/ WakeUp
    \/ Sleep
    \/ UpdateFrame
    \/ UpdatePartialFrame
    \/ DisplayFrame
    \/ UpdateAndDisplayFrame
    \/ ClearFrame
    \/ SetBackgroundColor
    \/ SetLut
    \/ SetPartialBaseBuffer
    \/ SetDeepSleepMode
    \/ SetRefresh
    \/ AssertHolds
    \/ AssertFails
    \/ ResetPulse
    \/ WaitIdle
    \/ SendCommand
    \/ SendData
    \/ ControllerDone

\* no transport fault occurs, the controller eventually finishes whatever it
\* is doing, and the single thread of the caller keeps executing the running
\* operation
FairSpec ==
    /\ Init
    /\ [][NextNoFault]_vars
    /\ WF_vars(ControllerDone)
    /\ WF_vars(Execute)

\* the operations that end with a busy-wait
EndInWait == {"new", "wake_up", "display_frame", "update_and_display_frame", "set_refresh"}

\* the operations of the claim, invoked with an input they accept
Accepted ==
    /\ op \in {"new", "wake_up", "sleep", "update_frame", "display_frame",
               "update_and_display_frame", "set_refresh"}
    /\ op \in {"update_frame", "update_and_display_frame"} => ~BadLength

\* C13: a busy-wait has no timeout: while the busy line is asserted, an
\* operation that is at a busy-wait neither advances nor returns nor reports
\* an error, and an operation that ends with a busy-wait (new among them)
\* returns Ok only when the busy line reads idle; when the controller
\* eventually releases the busy line and no transport fault occurs, each of
\* new, wake_up, sleep, update_frame, display_frame, update_and_display_frame
\* and set_refresh eventually returns Ok.
C13_BusyWait ==
    /\ [][ /\ (Running /\ todo[1].k = "wait" /\ busy) =>
                  (todo' = todo /\ result' = result /\ trace' = trace)
           /\ (result = "running" /\ result' = "Ok" /\ op \in EndInWait) => ~busy'
         ]_vars
    /\ (result = "running" /\ Accepted) ~> (result = "Ok")

C13_Witness == op = "new" /\ Running /\ todo[1].k = "wait" /\ busy /\ Len(trace) > 1

(***************************************************************************)
(* C14                                                                     *)
(***************************************************************************)
\* this step is the caller invoking the operation `name`
Invokes(name) == op' = name /\ result # "running" /\ busy' = busy

\* C14: set_background_color and set_deep_sleep_mode return at once and put
\* nothing on the pins or the bus; set_background_color stores its argument
\* as the background color (background_color() returns it) and
\* set_deep_sleep_mode stores its argument as the sleep depth, and each
\* leaves the other fields of the driver as they were.
C14_Setters ==
    [][ /\ Invokes("set_background_color") =>
               /\ trace' = <<>> /\ todo' = <<>> /\ result' = "Ok"
               /\ background_color' = arg'
               /\ background_color_get(background_color') = arg'
               /\ sleep_mode' = sleep_mode /\ refresh' = refresh
               /\ phase' = phase /\ asleep' = asleep /\ newTrace' = newTrace
        /\ Invokes("set_deep_sleep_mode") =>
               /\ trace' = <<>> /\ todo' = <<>> /\ result' = "Ok"
               /\ sleep_mode' = arg'
               /\ background_color' = background_color /\ refresh' = refresh
               /\ phase' = phase /\ asleep' = asleep /\ newTrace' = newTrace
      ]_vars

C14_Witness ==
    /\ op = "set_background_color" /\ arg = "Black" /\ background_color = "Black"
    /\ result = "Ok" /\ refresh = "Quick" /\ sleep_mode = "Mode2"

(***************************************************************************)
(* C15                                                                     *)
(***************************************************************************)
IsNotData(e) == e.k # "data"

\* the reset pulses, busy-waits and command bytes of a trace, in order
StepOrder(t) ==
    LET sel == SelectSeq(t, IsNotData)
    IN  [i \in DOMAIN sel |-> IF sel[i].k = "cmd" THEN sel[i].op ELSE sel[i].k]

\* an operation that is one run of init has returned Ok
InitRan ==
    /\ result = "Ok"
    /\ \/ op \in {"new", "wake_up"}
       \/ op = "set_refresh" /\ arg # was

\* C15 (as claimed): init emits reset pulse, busy-wait, software reset,
\* busy-wait, driver output control, data entry mode, RAM X window, RAM Y
\* window, border waveform control, display update control 1, temperature
\* sensor control, RAM X counter, RAM Y counter, busy-wait, in this exact
\* order.
C15_Original ==
    InitRan =>
        StepOrder(trace) =
            <<"reset", "wait", "SwReset", "wait", "DriverOutputControl",
              "DataEntryModeSetting", "SetRamXAddressStartEndPosition",
              "SetRamYAddressStartEndPosition", "BorderWaveformControl",
              "DisplayUpdateControl1", "TemperatureSensorControlRead",
              "SetRamXAddressCounter", "SetRamYAddressCounter", "wait">>

\* C15 (amended): the same order with one more busy-wait, between temperature
\* sensor control and RAM X counter; the reset pulse is (10000, 10000); the
\* reset precedes every command and both RAM window commands precede both
\* RAM counter commands.
C15_Amended ==
    InitRan =>
        /\ StepOrder(trace) =
               <<"reset", "wait", "SwReset", "wait", "DriverOutputControl",
                 "DataEntryModeSetting", "SetRamXAddressStartEndPosition",
                 "SetRamYAddressStartEndPosition", "BorderWaveformControl",
                 "DisplayUpdateControl1", "TemperatureSensorControlRead", "wait",
                 "SetRamXAddressCounter", "SetRamYAddressCounter", "wait">>
        /\ trace[1].data = Lit(<<10000, 10000>>)

C15_Witness == InitRan /\ op = "set_refresh" /\ Len(trace) > 0

(***************************************************************************)
(* C16                                                                     *)
(***************************************************************************)
Min(a, b) == IF a < b THEN a ELSE b

\* what follows the first n events of t
After(t, n) == SubSeq(t, n + 1, Len(t))

\* C16: whatever the driver did before, the traffic of an update_frame with a
\* buffer of the accepted length begins with the complete init sequence (the
\* one the construction emitted, from the reset pulse on), goes on with RAM X
\* and Y window and RAM X and Y counter, and ends with write RAM carrying the
\* caller's buffer; it holds no master activation.
C16_UpdateReinitializes ==
    (op = "update_frame" /\ ~BadLength) =>
        /\ LET n == Min(Len(trace), Len(newTrace))
           IN  SubSeq(trace, 1, n) = SubSeq(newTrace, 1, n)
        /\ \A i \in DOMAIN trace : trace[i].op # "MasterActivation"
        /\ result = "Ok" =>
               /\ Len(trace) > Len(newTrace)
               /\ CmdOrder(After(trace, Len(newTrace))) =
                      <<"SetRamXAddressStartEndPosition", "SetRamYAddressStartEndPosition",
                        "SetRamXAddressCounter", "SetRamYAddressCounter", "WriteRam">>
               /\ trace[Len(trace)] = [k |-> "data", op |-> "WriteRam", data |-> buf]

C16_Witness ==
    /\ op = "update_frame" /\ result = "Ok" /\ ~BadLength
    /\ asleep /\ updated.done /\ updated.buffer # buf

(***************************************************************************)
(* C17                                                                     *)
(***************************************************************************)
\* what update_frame(buffer) and then display_frame emit when both return Ok
TwoCallTrace(buffer) == Events(update_frame(buffer)) \o Events(display_frame)

\* C17: update_and_display_frame(buffer) emits what update_frame(buffer)
\* followed by display_frame emits, and like them leaves the stored fields of
\* the driver as they were; when its update part fails, it emits neither
\* display update control 2 nor master activation.
C17_UpdateAndDisplay ==
    /\ [](/\ (op = "update_and_display_frame" /\ result = "Ok") =>
                 trace = TwoCallTrace(buf)
          /\ UpdateThenDisplay =>
                 updated.trace \o trace = TwoCallTrace(updated.buffer)
          /\ op = "update_and_display_frame" =>
                 /\ IsPrefix(trace, TwoCallTrace(buf))
                 /\ (result # "Ok" /\ Len(trace) < Len(Events(update_frame(buf)))) =>
                        \A i \in DOMAIN trace :
                            trace[i].op \notin {"DisplayUpdateControl2", "MasterActivation"})
    /\ [][op' \in {"update_and_display_frame", "update_frame", "display_frame"} =>
              config' = config]_vars

C17_Witness ==
    /\ op = "update_and_display_frame" /\ result = "Ok"
    /\ buf = FrameBuffer(buffer_len(WIDTH, HEIGHT), 1)
    /\ refresh = "Quick"

(***************************************************************************)
(* C18                                                                     *)
(***************************************************************************)
\* C18: no set_refresh and no set_lut call, whatever its argument and the
\* state it is made in, emits a master activation command.
C18_NoActivation ==
    op \in {"set_refresh", "set_lut"} =>
        \A i \in DOMAIN trace : trace[i].op # "MasterActivation"

C18_Witness ==
    /\ op = "set_refresh" /\ arg = "Full" /\ was = "Quick" /\ result = "Ok"
    /\ asleep /\ Len(trace) > 0

(***************************************************************************)
(* C19                                                                     *)
(***************************************************************************)
\* C19 (as claimed): when set_refresh(p), p different from the stored
\* profile, returns a transport fault, the stored profile is the one it was
\* before the call.
C19_Claim ==
    (op = "set_refresh" /\ arg # was /\ result = "Err") => refresh = was

(***************************************************************************)
(* C20                                                                     *)
(***************************************************************************)
\* C20: the stored refresh profile, sleep depth and background color change
\* only in the step that invokes set_refresh, set_deep_sleep_mode or
\* set_background_color, and then to the argument of that call; init, wake_up,
\* sleep, update_frame, display_frame, update_and_display_frame and set_lut
\* leave all three as they were; a newly constructed driver has profile
\* Full, sleep depth Mode1 and background White.
C20_ConfigOwnership ==
    [][ /\ refresh' # refresh => (Invokes("set_refresh") /\ refresh' = arg')
        /\ sleep_mode' # sleep_mode =>
               (Invokes("set_deep_sleep_mode") /\ sleep_mode' = arg')
        /\ background_color' # background_color =>
               (Invokes("set_background_color") /\ background_color' = arg')
        /\ op' \in {"new", "wake_up", "sleep", "update_frame", "display_frame",
                    "update_and_display_frame", "set_lut"} => config' = config
        /\ (phase # "live" /\ phase' = "live") =>
               /\ op = "new"
               /\ refresh' = "Full" /\ sleep_mode' = "Mode1"
               /\ background_color' = "White"
      ]_vars

C20_Witness ==
    /\ op = "wake_up" /\ result = "Ok"
    /\ refresh = "Quick" /\ sleep_mode = "Normal" /\ background_color = "Black"

====
